---- MODULE Spec2Model ----
(***************************************************************************)
(* A model of tiley (src/src/lib.rs): a Bitmap (flat row-major u32 buffer), *)
(* a PixelGrid of "virtual pixels" letterboxed onto it, a SpriteSheet and   *)
(* the TileGrid that draws sprites onto tiles.                              *)
(*                                                                         *)
(* Two specifications are given.  Spec is the whole library with its pixel  *)
(* buffer: Bitmap::from_vec, Bitmap::fill, TileGrid::new and                *)
(* TileGrid::draw_tile.  SpecGeom is the layout arithmetic alone            *)
(* (PixelGrid::new and the rectangle draw_virtual_pixel computes), over     *)
(* larger dimensions and with no pixel store.                               *)
(***************************************************************************)
EXTENDS Integers, Sequences, FiniteSets, TLC

VARIABLES
    phase,             \* "bitmap": a Bitmap exists; "grid": it was moved into a
                       \* TileGrid; "pixel_grid": (SpecGeom) into a bare PixelGrid;
                       \* "panicked": the thread panicked
    debug_assertions,  \* cfg(debug_assertions): whether debug_assert! is compiled in
    buffer,            \* Bitmap.buffer, indexed from 0
    bitmap,            \* Bitmap.width, Bitmap.height
    pixel_grid,        \* PixelGrid's layout fields
    tile_grid,         \* TileGrid.width, .height, .tile_size
    sprite_sheet,      \* SpriteSheet.image, .sprite_size
    draws,             \* number of draw_tile calls made (bounded by MaxDraws)
    last               \* the last call: its name, arguments and outcome

vars == <<phase, debug_assertions, buffer, bitmap, pixel_grid, tile_grid,
          sprite_sheet, draws, last>>

----------------------------------------------------------------------------
(* Bounds of the model. *)

\* Spec: largest buffer width and height.
MaxDim == 4
\* Spec: largest tile grid width and height, in tiles, and largest tile side,
\* in virtual pixels: each up to half the largest buffer dimension.
MaxTiles == MaxDim \div 2
MaxTileSize == MaxDim \div 2
\* Spec: number of sprites on the synthetic sheet.
SheetSprites == 2
\* Spec: largest number of draw_tile calls in a run.
MaxDraws == 2
\* SpecGeom: largest buffer and logical width and height.
GeomMaxDim == 12

----------------------------------------------------------------------------
(* f64 arithmetic.                                                         *)
(*                                                                         *)
(* The code computes pixel_size = a as f64 / b as f64 and then, for a cell  *)
(* index x, (pixel_size * x as f64) as usize.  usize -> f64 is exact below *)
(* 2^53.  An f64 quotient of two integers a >= b >= 1 is kept as the pair   *)
(* [num |-> a, den |-> b]; it stands for fl(a/b), the double nearest a/b.   *)
(* With e = floor(log2(a/b)) and k = 52 - e, fl(a/b) = m / 2^k for the      *)
(* integer m nearest a*2^k/b, that is                                       *)
(*     fl(a/b) = (a*2^k + d) / (b*2^k),   d = F64RoundErr(a, b),            *)
(* where d = -r when the remainder r = (a*2^k) mod b is below b/2 and       *)
(* d = b - r when it is above (r = b/2 would need a 54-bit quotient and     *)
(* cannot happen for a < 2^53).  The product with x is then                 *)
(*     a*x/b + d*x/(b*2^k),                                                 *)
(* rounded to the nearest double and truncated.  For the small integers of  *)
(* the model (b*n*2^e far below 2^50) the truncation differs from           *)
(* floor(a*x/b) only when a*x/b is an integer n, d < 0, and the product     *)
(* lies more than half a spacing below n, where it rounds to the double     *)
(* below n and truncates to n - 1 (e.g. (15.0/11.0*11.0) as usize = 14).    *)

\* f64 has 52 explicit fraction bits.
F64FractionBits == 52

RECURSIVE Pow2(_)
Pow2(n) == IF n <= 0 THEN 1 ELSE 2 * Pow2(n - 1)

\* Largest e >= 0 with 2^e * b <= a (a >= b >= 1): the exponent of a/b.
RECURSIVE FloorLog2(_, _)
FloorLog2(a, b) == IF 2 * b <= a THEN 1 + FloorLog2(a, 2 * b) ELSE 0

\* (r * 2^k) mod b, by k doublings.
RECURSIVE ShiftMod(_, _, _)
ShiftMod(r, k, b) ==
    IF k = 0 \/ r % b = 0 THEN r % b ELSE ShiftMod((2 * r) % b, k - 1, b)

\* The rounding error of `a as f64 / b as f64`, in units of 1/(b*2^k).
F64RoundErr(a, b) ==
    LET k == F64FractionBits - FloorLog2(a, b)
        r == ShiftMod(a % b, k, b)
    IN  IF r = 0 THEN 0 ELSE IF 2 * r < b THEN 0 - r ELSE b - r

\* `a as f64 / b as f64`
f64_div(a, b) == [num |-> a, den |-> b]

\* A comparison the wrong way round.
f64_lt_reversed(p, q) == q.num * p.den < p.num * q.den

\* p < q on two such quotients.  Distinct rationals with small terms differ by
\* at least 1/(p.den*q.den), far more than a rounding error, and equal rationals
\* round to the same double: the comparison is that of the rationals.
f64_lt(p, q) == p.num * q.den < q.num * p.den

\* `(p * x as f64) as usize`: the f64 product, truncated.
f64_mul_as_usize(p, x) ==
    LET a == p.num
        b == p.den
        n == (a * x) \div b
        d == F64RoundErr(a, b)
    IN  IF n = 0 \/ (a * x) % b # 0 \/ d >= 0 THEN n
        ELSE LET e  == FloorLog2(a, b)
                 j  == FloorLog2(n, 1)
                 pw == IF Pow2(j) = n THEN 1 ELSE 0
             IN  IF (0 - d) * x * Pow2(1 + pw + e) > b * Pow2(j)
                 THEN n - 1 ELSE n

----------------------------------------------------------------------------
(* Bitmap *)

\* A drawing call threads the buffer and the panic raised so far ("" for none):
\* a panic ends the call where it is raised, and what was written stays written.
NoPanic == ""
Running(buf) == [buffer |-> buf, panic |-> NoPanic]
Panic(st, msg) == [st EXCEPT !.panic = msg]

\* debug_assert!(cond): checked only when debug assertions are compiled in.
DebugAssertFails(cond) == debug_assertions /\ ~cond

\* Bitmap::from_vec: the buffer as given (width * height long: the one
\* debug_assert! of from_vec, which every vector of the model satisfies).
Bitmap_from_vec(vec, width, height) ==
    [buffer |-> vec, width |-> width, height |-> height]

\* A fill that misses the first pixel.
Bitmap_fill_skip_first(buf, color) ==
    [i \in DOMAIN buf |-> IF i = 0 THEN buf[i] ELSE color]

\* Bitmap::fill
Bitmap_fill(buf, color) == [i \in DOMAIN buf |-> color]

\* A draw_pixel that adds the colour to the pixel instead of storing it.
Bitmap_draw_pixel_blend(st, x, y, color) ==
    IF st.panic # NoPanic \/ (x + y * bitmap.width) \notin DOMAIN st.buffer THEN st
    ELSE [st EXCEPT !.buffer[x + y * bitmap.width] = (@ + color) % 16777216]

\* A draw_pixel that takes the height for the row stride.
Bitmap_draw_pixel_stride(st, x, y, color) ==
    IF st.panic # NoPanic THEN st
    ELSE IF (x + y * bitmap.height) \notin DOMAIN st.buffer
         THEN Panic(st, "index out of bounds")
    ELSE [st EXCEPT !.buffer[x + y * bitmap.height] = color]

\* Bitmap::draw_pixel; indexing the Vec is bounds-checked in every build.
Bitmap_draw_pixel(st, x, y, color) ==
    IF st.panic # NoPanic THEN st
    ELSE IF DebugAssertFails(x < bitmap.width)
         THEN Panic(st, "assertion failed: x < self.width")
    ELSE IF DebugAssertFails(y < bitmap.height)
         THEN Panic(st, "assertion failed: y < self.height")
    ELSE IF (x + y * bitmap.width) \notin DOMAIN st.buffer
         THEN Panic(st, "index out of bounds")
    ELSE [st EXCEPT !.buffer[x + y * bitmap.width] = color]

\* for y in y..=y2 { draw_pixel((x, y), color) }
RECURSIVE DrawColumn(_, _, _, _, _)
DrawColumn(st, x, y, y2, color) ==
    IF y > y2 \/ st.panic # NoPanic THEN st
    ELSE DrawColumn(Bitmap_draw_pixel(st, x, y, color), x, y + 1, y2, color)

\* for x in x..=x2 { for y in y1..=y2 { ... } }
RECURSIVE DrawColumns(_, _, _, _, _, _)
DrawColumns(st, x, x2, y1, y2, color) ==
    IF x > x2 \/ st.panic # NoPanic THEN st
    ELSE DrawColumns(DrawColumn(st, x, y1, y2, color), x + 1, x2, y1, y2, color)

\* The four debug_assert! of draw_rectangle_pixels, in order: the message of the
\* first that fails on rectangle r, or NoPanic.
RectangleAssert(r, width, height) ==
    IF ~(r.x1 < r.x2) THEN "assertion failed: x1 < x2"
    ELSE IF ~(r.y1 < r.y2) THEN "assertion failed: y1 < y2"
    ELSE IF ~(r.x2 < width) THEN "assertion failed: x2 < self.width"
    ELSE IF ~(r.y2 < height) THEN "assertion failed: y2 < self.height"
    ELSE NoPanic

\* Bitmap::draw_rectangle_pixels on the inclusive rectangle r.
Bitmap_draw_rectangle_pixels(st, r, color) ==
    IF st.panic # NoPanic THEN st
    ELSE IF DebugAssertFails(RectangleAssert(r, bitmap.width, bitmap.height) = NoPanic)
         THEN Panic(st, RectangleAssert(r, bitmap.width, bitmap.height))
    ELSE DrawColumns(st, r.x1, r.x2, r.y1, r.y2, color)

----------------------------------------------------------------------------
(* PixelGrid *)

\* A layout whose offset is the leftover halved rounding up.
PixelGrid_new_round_up(bm, width, height) ==
    LET clamped_by ==
            IF f64_lt(f64_div(bm.width, width), f64_div(bm.height, height))
            THEN "Width" ELSE "Height"
        pixel_size ==
            IF clamped_by = "Height" THEN f64_div(bm.height, height)
            ELSE f64_div(bm.width, width)
        pixel_offset ==
            ((IF clamped_by = "Height"
              THEN bm.width - f64_mul_as_usize(pixel_size, width)
              ELSE bm.height - f64_mul_as_usize(pixel_size, height)) + 1) \div 2
    IN  [width |-> width, height |-> height, clamped_by |-> clamped_by,
         pixel_size |-> pixel_size, pixel_offset |-> pixel_offset]

\* PixelGrid::new: the letterbox layout of a width x height grid of virtual
\* pixels on a bitmap of bm.width x bm.height.
PixelGrid_new(bm, width, height) ==
    LET clamped_by ==
            IF f64_lt(f64_div(bm.width, width), f64_div(bm.height, height))
            THEN "Width" ELSE "Height"
        pixel_size ==
            IF clamped_by = "Height" THEN f64_div(bm.height, height)
            ELSE f64_div(bm.width, width)
        pixel_offset ==
            (IF clamped_by = "Height"
             THEN bm.width - f64_mul_as_usize(pixel_size, width)
             ELSE bm.height - f64_mul_as_usize(pixel_size, height)) \div 2
    IN  [width |-> width, height |-> height, clamped_by |-> clamped_by,
         pixel_size |-> pixel_size, pixel_offset |-> pixel_offset]

\* A square whose far edges are the next cell's near edges (the "- 1" forgotten).
VirtualPixelRect_overlap(pg, x, y) ==
    LET dx == IF pg.clamped_by = "Height" THEN pg.pixel_offset ELSE 0
        dy == IF pg.clamped_by = "Height" THEN 0 ELSE pg.pixel_offset
    IN  [x1 |-> f64_mul_as_usize(pg.pixel_size, x) + dx,
         y1 |-> f64_mul_as_usize(pg.pixel_size, y) + dy,
         x2 |-> f64_mul_as_usize(pg.pixel_size, x + 1) + dx,
         y2 |-> f64_mul_as_usize(pg.pixel_size, y + 1) + dy]

\* A square of a fixed side, the truncated pixel_size, from its near edges.
VirtualPixelRect_fixed_side(pg, x, y) ==
    LET dx == IF pg.clamped_by = "Height" THEN pg.pixel_offset ELSE 0
        dy == IF pg.clamped_by = "Height" THEN 0 ELSE pg.pixel_offset
        side == f64_mul_as_usize(pg.pixel_size, 1)
    IN  [x1 |-> f64_mul_as_usize(pg.pixel_size, x) + dx,
         y1 |-> f64_mul_as_usize(pg.pixel_size, y) + dy,
         x2 |-> f64_mul_as_usize(pg.pixel_size, x) + side - 1 + dx,
         y2 |-> f64_mul_as_usize(pg.pixel_size, y) + side - 1 + dy]

\* The square of the bitmap draw_virtual_pixel computes for virtual pixel (x, y)
\* of layout pg: top left (x1, y1), bottom right (x2, y2), both inclusive.
\* (pixel_size >= 1 in every layout of the model, so the products with x + 1 and
\* y + 1 are at least 1 and the usize subtractions do not underflow.)
VirtualPixelRect(pg, x, y) ==
    LET x1 == f64_mul_as_usize(pg.pixel_size, x)
        y1 == f64_mul_as_usize(pg.pixel_size, y)
        x2 == f64_mul_as_usize(pg.pixel_size, x + 1) - 1
        y2 == f64_mul_as_usize(pg.pixel_size, y + 1) - 1
        dx == IF pg.clamped_by = "Height" THEN pg.pixel_offset ELSE 0
        dy == IF pg.clamped_by = "Height" THEN 0 ELSE pg.pixel_offset
    IN  [x1 |-> x1 + dx, y1 |-> y1 + dy, x2 |-> x2 + dx, y2 |-> y2 + dy]

\* PixelGrid::draw_virtual_pixel
PixelGrid_draw_virtual_pixel(st, x, y, color) ==
    IF st.panic # NoPanic THEN st
    ELSE IF DebugAssertFails(x < pixel_grid.width)
         THEN Panic(st, "assertion failed: x < self.width")
    ELSE IF DebugAssertFails(y < pixel_grid.height)
         THEN Panic(st, "assertion failed: y < self.height")
    ELSE Bitmap_draw_rectangle_pixels(st, VirtualPixelRect(pixel_grid, x, y), color)

\* The decoded sheet is a synthetic RGB image: every pixel has a colour of its
\* own, of three different bytes, so that a shifted, swapped or repacked pixel
\* shows.  The pixels never change, so the state keeps the image's dimensions
\* and SheetPixel gives its content.
SheetPixel(x, y) == <<1 + x, 64 + y, 128 + x + 8 * y>>
SyntheticImage(width, height) == [width |-> width, height |-> height]

\* u32::from_be_bytes([0, r, g, b]) of an Rgb<u8> pixel <<r, g, b>>.
PackRgb(rgb) == rgb[1] * 65536 + rgb[2] * 256 + rgb[3]

\* image.get_pixel(dx, dy) on a SubImage view of the sheet image.
GetPixel(view, dx, dy) == SheetPixel(view.x + dx, view.y + dy)

\* for dy in dy..image_height { draw_virtual_pixel((x + dx, y + dy), color) }
RECURSIVE DrawImageColumn(_, _, _, _, _, _)
DrawImageColumn(st, x, y, view, dx, dy) ==
    IF dy >= view.height \/ st.panic # NoPanic THEN st
    ELSE DrawImageColumn(
             PixelGrid_draw_virtual_pixel(st, x + dx, y + dy,
                                          PackRgb(GetPixel(view, dx, dy))),
             x, y, view, dx, dy + 1)

\* for dx in dx..image_width { for dy in 0..image_height { ... } }
RECURSIVE DrawImageColumns(_, _, _, _, _)
DrawImageColumns(st, x, y, view, dx) ==
    IF dx >= view.width \/ st.panic # NoPanic THEN st
    ELSE DrawImageColumns(DrawImageColumn(st, x, y, view, dx, 0), x, y, view, dx + 1)

\* PixelGrid::draw_image
PixelGrid_draw_image(st, x, y, view) ==
    IF st.panic # NoPanic THEN st
    ELSE IF DebugAssertFails(x + view.width - 1 < pixel_grid.width)
         THEN Panic(st, "assertion failed: x + image_width as usize - 1 < self.width")
    ELSE IF DebugAssertFails(y + view.height - 1 < pixel_grid.height)
         THEN Panic(st, "assertion failed: y + image_height as usize - 1 < self.height")
    ELSE DrawImageColumns(st, x, y, view, 0)

----------------------------------------------------------------------------
(* SpriteSheet *)

\* What ImageReader::open(path) and .decode() make of a source: a file that
\* cannot be opened, one that cannot be decoded, or a sheet of SheetSprites
\* columns and two rows of sprites of the given side.
Sources == {"unreadable", "malformed", "sheet"}

\* A SpriteSheet::new whose two .expect() carry the same message.
SpriteSheet_new_one_message(source, sprite_size) ==
    IF source \in {"unreadable", "malformed"}
    THEN [panic |-> "error opening the image"]
    ELSE [panic |-> NoPanic,
          image |-> SyntheticImage(SheetSprites * sprite_size, 2 * sprite_size),
          sprite_size |-> sprite_size]

\* SpriteSheet::new: the sheet, or the panic of the failing .expect().
SpriteSheet_new(source, sprite_size) ==
    IF source = "unreadable"
    THEN [panic |-> "error opening the image"]
    ELSE IF source = "malformed"
    THEN [panic |-> "error decoding the image"]
    ELSE [panic |-> NoPanic,
          image |-> SyntheticImage(SheetSprites * sprite_size, 2 * sprite_size),
          sprite_size |-> sprite_size]

\* linear_translation, the id_to_coords of every sheet SpriteSheet::new builds.
linear_translation(sprite_id) == <<sprite_id, 0>>

\* The two debug_assert! of SpriteSheet::sprite.
SpriteAssert(sprite_id) ==
    LET c == linear_translation(sprite_id)
    IN  IF ~(sprite_sheet.image.width > (c[1] + 1) * sprite_sheet.sprite_size - 1)
        THEN "assertion failed: image_width as usize > (sprite_x + 1) * self.sprite_size - 1"
        ELSE IF ~(sprite_sheet.image.height > (c[2] + 1) * sprite_sheet.sprite_size - 1)
        THEN "assertion failed: image_height as usize > (sprite_y + 1) * self.sprite_size - 1"
        ELSE NoPanic

\* SpriteSheet::sprite: the view image.view(x, y, width, height).
SpriteSheet_sprite(sprite_id) ==
    LET c == linear_translation(sprite_id)
    IN  [x |-> c[1] * sprite_sheet.sprite_size,
         y |-> c[2] * sprite_sheet.sprite_size,
         width |-> sprite_sheet.sprite_size,
         height |-> sprite_sheet.sprite_size]

----------------------------------------------------------------------------
(* TileGrid *)

\* TileGrid::draw_tile on buffer buf: the buffer it leaves and its panic, if any.
TileGrid_draw_tile(buf, tile_x, tile_y, sprite_id) ==
    IF DebugAssertFails(SpriteAssert(sprite_id) = NoPanic)
    THEN Panic(Running(buf), SpriteAssert(sprite_id))
    ELSE IF DebugAssertFails(tile_x < tile_grid.width)
    THEN Panic(Running(buf), "assertion failed: tile_x < self.width")
    ELSE IF DebugAssertFails(tile_y < tile_grid.height)
    THEN Panic(Running(buf), "assertion failed: tile_y < self.height")
    ELSE PixelGrid_draw_image(Running(buf),
                              tile_x * tile_grid.tile_size,
                              tile_y * tile_grid.tile_size,
                              SpriteSheet_sprite(sprite_id))

----------------------------------------------------------------------------
(* The state machine *)

NoRect == [x1 |-> 0, y1 |-> 0, x2 |-> 0, y2 |-> 0]
\* A call as `last` records it: its name, the tile or virtual pixel or grid size
\* it was given, the sprite id or tile size, the colour, the source, the
\* rectangle it computed, its panic, and the name and arguments of the call
\* before it.
Call(op, at, id, color, src, rect, panic) ==
    [op |-> op, at |-> at, id |-> id, color |-> color, src |-> src,
     rect |-> rect, panic |-> panic,
     prev |-> [op |-> last.op, at |-> last.at, id |-> last.id,
               color |-> last.color]]
FirstCall ==
    [op |-> "from_vec", at |-> <<0, 0>>, id |-> 0, color |-> 0, src |-> "",
     rect |-> NoRect, panic |-> NoPanic,
     prev |-> [op |-> "", at |-> <<0, 0>>, id |-> 0, color |-> 0]]

NoPixelGrid ==
    [width |-> 0, height |-> 0, clamped_by |-> "Height",
     pixel_size |-> f64_div(0, 1), pixel_offset |-> 0]
NoTileGrid == [width |-> 0, height |-> 0, tile_size |-> 0]
NoSpriteSheet == [image |-> SyntheticImage(0, 0), sprite_size |-> 0]

\* The colours fill is called with (0xffffff is the documentation's example).
FillColours == {16777215, 0}

\* The vectors a Bitmap is built from: a previous frame in which every pixel has
\* a value of its own (vec![0; n] is what fill(0) leaves).
InitialVecs(n) == {[i \in 0 .. n - 1 |-> 1000 + i]}

\* The caller's contract for draw_tile: a tile of the grid, a sprite of the sheet.
ValidSpriteIds ==
    {id \in 0 .. SheetSprites :
        /\ (linear_translation(id)[1] + 1) * sprite_sheet.sprite_size
               <= sprite_sheet.image.width
        /\ (linear_translation(id)[2] + 1) * sprite_sheet.sprite_size
               <= sprite_sheet.image.height}

\* After Bitmap::from_vec.
Init ==
    /\ phase = "bitmap"
    /\ debug_assertions \in BOOLEAN
    /\ \E w \in 1 .. MaxDim, h \in 1 .. MaxDim : \E v \in InitialVecs(w * h) :
          LET bm == Bitmap_from_vec(v, w, h)
          IN  /\ buffer = bm.buffer
              /\ bitmap = [width |-> bm.width, height |-> bm.height]
    /\ pixel_grid = NoPixelGrid
    /\ tile_grid = NoTileGrid
    /\ sprite_sheet = NoSpriteSheet
    /\ draws = 0
    /\ last = FirstCall

\* bitmap.fill(color); the Bitmap is the caller's until TileGrid::new takes it.
Fill ==
    /\ phase = "bitmap"
    /\ \E color \in FillColours :
          /\ buffer' = Bitmap_fill(buffer, color)
          /\ last' = Call("fill", <<0, 0>>, 0, color, "", NoRect, NoPanic)
    /\ UNCHANGED <<phase, debug_assertions, bitmap, pixel_grid, tile_grid,
                   sprite_sheet, draws>>

\* TileGrid::new(bitmap, width, height, tile_size, path), for grids no larger
\* than the buffer (the layouts with pixel_size >= 1).  The layout is computed
\* first; a source that cannot be opened or decoded then panics.
New ==
    /\ phase = "bitmap"
    /\ \E width \in 1 .. MaxTiles, height \in 1 .. MaxTiles,
          tile_size \in 1 .. MaxTileSize, source \in Sources :
          LET pg    == PixelGrid_new(bitmap, width * tile_size, height * tile_size)
              sheet == SpriteSheet_new(source, tile_size)
          IN  /\ width * tile_size <= bitmap.width
              /\ height * tile_size <= bitmap.height
              /\ IF sheet.panic # NoPanic
                 THEN /\ phase' = "panicked"
                      /\ UNCHANGED <<pixel_grid, tile_grid, sprite_sheet>>
                 ELSE /\ phase' = "grid"
                      /\ pixel_grid' = pg
                      /\ tile_grid' = [width |-> width, height |-> height,
                                       tile_size |-> tile_size]
                      /\ sprite_sheet' = [image |-> sheet.image,
                                          sprite_size |-> sheet.sprite_size]
              /\ last' = Call("new", <<width, height>>, tile_size, 0, source,
                              NoRect, sheet.panic)
    /\ UNCHANGED <<debug_assertions, buffer, bitmap, draws>>

\* tile_grid.draw_tile((tile_x, tile_y), sprite_id) within the caller's contract.
DrawTile ==
    /\ phase = "grid"
    /\ draws < MaxDraws
    /\ \E tile_x \in 0 .. tile_grid.width - 1, tile_y \in 0 .. tile_grid.height - 1,
          sprite_id \in ValidSpriteIds :
          LET st == TileGrid_draw_tile(buffer, tile_x, tile_y, sprite_id)
          IN  /\ buffer' = st.buffer
              /\ phase' = IF st.panic = NoPanic THEN "grid" ELSE "panicked"
              /\ last' = Call("draw_tile", <<tile_x, tile_y>>, sprite_id, 0, "",
                              NoRect, st.panic)
    /\ draws' = draws + 1
    /\ UNCHANGED <<debug_assertions, bitmap, pixel_grid, tile_grid, sprite_sheet>>

Next == Fill \/ New \/ DrawTile

Spec == Init /\ [][Next]_vars

----------------------------------------------------------------------------
(* The layout arithmetic alone: PixelGrid::new on a bitmap of which only the  *)
(* dimensions are kept, and the rectangle draw_virtual_pixel hands to         *)
(* draw_rectangle_pixels for one virtual pixel, with the outcome of that      *)
(* function's debug_assert!s (the build with debug assertions: a release      *)
(* build computes the same layout and rectangles and checks nothing).         *)

\* The documentation's 600 x 200 bitmap and a 20 x 10 grid of virtual pixels.
ExampleBitmap == <<600, 200>>
ExampleGrid == <<20, 10>>

\* A layout on which the f64 product is not the exact one:
\* (15.0 / 11.0 * 11.0) as usize is 14.
RoundingBitmap == <<15, 30>>
RoundingGrid == <<11, 11>>

GeomBitmaps ==
    ((1 .. GeomMaxDim) \X (1 .. GeomMaxDim)) \cup {ExampleBitmap, RoundingBitmap}
GeomGrids ==
    ((1 .. GeomMaxDim) \X (1 .. GeomMaxDim)) \cup {ExampleGrid, RoundingGrid}

InitGeom ==
    /\ phase = "bitmap"
    /\ debug_assertions = TRUE
    /\ buffer = << >>
    /\ \E d \in GeomBitmaps : bitmap = [width |-> d[1], height |-> d[2]]
    /\ pixel_grid = NoPixelGrid
    /\ tile_grid = NoTileGrid
    /\ sprite_sheet = NoSpriteSheet
    /\ draws = 0
    /\ last = FirstCall

\* PixelGrid::new(bitmap, width, height), for grids no larger than the bitmap.
GeomNew ==
    /\ phase = "bitmap"
    /\ \E g \in GeomGrids :
          /\ g[1] <= bitmap.width
          /\ g[2] <= bitmap.height
          /\ pixel_grid' = PixelGrid_new(bitmap, g[1], g[2])
          /\ last' = Call("new", g, 0, 0, "", NoRect, NoPanic)
    /\ phase' = "pixel_grid"
    /\ UNCHANGED <<debug_assertions, buffer, bitmap, tile_grid, sprite_sheet, draws>>

\* draw_virtual_pixel((x, y), _) up to its call of draw_rectangle_pixels and
\* that function's assertions; one virtual pixel is examined per run.
GeomDrawVirtualPixel ==
    /\ phase = "pixel_grid"
    /\ last.op = "new"
    /\ \E x \in 0 .. pixel_grid.width - 1, y \in 0 .. pixel_grid.height - 1 :
          LET r   == VirtualPixelRect(pixel_grid, x, y)
              msg == RectangleAssert(r, bitmap.width, bitmap.height)
          IN  /\ last' = Call("draw_virtual_pixel", <<x, y>>, 0, 0, "", r,
                              IF debug_assertions THEN msg ELSE NoPanic)
              /\ phase' = IF DebugAssertFails(msg = NoPanic)
                          THEN "panicked" ELSE "pixel_grid"
    /\ UNCHANGED <<debug_assertions, buffer, bitmap, pixel_grid, tile_grid,
                   sprite_sheet, draws>>

NextGeom == GeomNew \/ GeomDrawVirtualPixel

SpecGeom == InitGeom /\ [][NextGeom]_vars

----------------------------------------------------------------------------
(* Properties *)

Tiles == (0 .. tile_grid.width - 1) \X (0 .. tile_grid.height - 1)
FractionalScale == pixel_grid.pixel_size.num % pixel_grid.pixel_size.den # 0
DrewTile == phase = "grid" /\ last.op = "draw_tile"

\* The colour of sheet pixel (x, y) packed as 0x00RRGGBB.
SheetColour(x, y) ==
    SheetPixel(x, y)[1] * 65536 + SheetPixel(x, y)[2] * 256 + SheetPixel(x, y)[3]

\* Every virtual pixel (dx, dy) of tile t has a non-empty rectangle inside the
\* buffer, and every buffer pixel of it holds the colour of pixel (dx, dy) of
\* sprite id, which linear_translation places at column id of row 0.
TileShowsSprite(t, id) ==
    LET s == tile_grid.tile_size
    IN  \A dx \in 0 .. s - 1, dy \in 0 .. s - 1 :
            LET r == VirtualPixelRect(pixel_grid, t[1] * s + dx, t[2] * s + dy)
            IN  /\ r.x1 <= r.x2 /\ r.x2 < bitmap.width
                /\ r.y1 <= r.y2 /\ r.y2 < bitmap.height
                /\ \A bx \in r.x1 .. r.x2, by \in r.y1 .. r.y2 :
                      buffer[bx + by * bitmap.width] = SheetColour(id * s + dx, dy)

\* C1 as stated: sprite round trip.  After draw_tile((tx, ty), id) on a tile of
\* the grid with a sprite of the sheet, on any layout, the tile shows the
\* sprite.
RoundTrip ==
    last.op = "draw_tile" => TileShowsSprite(last.at, last.id)

\* C1 for the calls that return: the tile shows the sprite.
RoundTripWhenReturned ==
    DrewTile => TileShowsSprite(last.at, last.id)

\* C1's case: a sprite other than the first drawn on a tile other than the
\* first, at a fractional scale, with a letterbox margin.
RoundTripWitness ==
    /\ DrewTile
    /\ last.id = 1
    /\ last.at # <<0, 0>>
    /\ FractionalScale
    /\ pixel_grid.pixel_offset > 0

\* C2: draw_tile is idempotent.  In every state a draw_tile call has left, the
\* same call again leaves the buffer as it is, and ends as the first did.
Idempotent ==
    last.op = "draw_tile" =>
        TileGrid_draw_tile(buffer, last.at[1], last.at[2], last.id)
            = [buffer |-> buffer, panic |-> last.panic]

\* C2's case: draw_tile was called twice in a row with the same tile and sprite.
IdempotentWitness ==
    /\ DrewTile
    /\ last.prev.op = "draw_tile"
    /\ last.prev.at = last.at
    /\ last.prev.id = last.id

\* The buffer pixels draw_tile(t, id) writes: those that change on a buffer no
\* pixel of which holds a colour.
Blank == [k \in DOMAIN buffer |-> 0 - 1]
WrittenBy(t, id) ==
    {k \in DOMAIN buffer : TileGrid_draw_tile(Blank, t[1], t[2], id).buffer[k] # 0 - 1}
\* The buffer after draw_tile(a, i) and then draw_tile(b, j).
DrawBoth(a, i, b, j) ==
    TileGrid_draw_tile(TileGrid_draw_tile(buffer, a[1], a[2], i).buffer,
                       b[1], b[2], j).buffer

\* Two distinct tiles, each pair taken once.
Before(a, b) == a[1] < b[1] \/ (a[1] = b[1] /\ a[2] < b[2])

AdjacentCells ==
    last.op = "draw_virtual_pixel" =>
        LET x == last.at[1]
            y == last.at[2]
        IN  /\ x + 1 < pixel_grid.width =>
                  last.rect.x2 = VirtualPixelRect(pixel_grid, x + 1, y).x1 - 1
            /\ y + 1 < pixel_grid.height =>
                  last.rect.y2 = VirtualPixelRect(pixel_grid, x, y + 1).y1 - 1

\* C4's case: a cell with a right and a lower neighbour, at a fractional scale.
AdjacentCellsWitness ==
    /\ last.op = "draw_virtual_pixel"
    /\ last.at[1] + 1 < pixel_grid.width
    /\ last.at[2] + 1 < pixel_grid.height
    /\ FractionalScale

\* The letterboxed axis of the layout: its extent in the buffer, its extent in
\* virtual pixels, and the margins before the first and after the last cell.
LetterboxBuffer ==
    IF pixel_grid.clamped_by = "Height" THEN bitmap.width ELSE bitmap.height
LetterboxGrid ==
    IF pixel_grid.clamped_by = "Height" THEN pixel_grid.width ELSE pixel_grid.height
LeadingMargin ==
    LET r == VirtualPixelRect(pixel_grid, 0, 0)
    IN  IF pixel_grid.clamped_by = "Height" THEN r.x1 ELSE r.y1
TrailingMargin ==
    LET r == VirtualPixelRect(pixel_grid, pixel_grid.width - 1, pixel_grid.height - 1)
    IN  LetterboxBuffer - 1 - (IF pixel_grid.clamped_by = "Height" THEN r.x2 ELSE r.y2)

\* C5: letterbox fit and symmetry.  On the letterboxed axis, of buffer extent D
\* and logical extent L, with the product scale*L computed as the code computes
\* it (in f64, truncated): 0 <= D - (floor(scale*L) + 2*centering_offset) <= 1;
\* the cells start at the offset, and the margin after the last cell is not
\* negative and exceeds the margin before the first by at most one pixel.
LetterboxFit ==
    phase # "bitmap" =>
        LET scaled == f64_mul_as_usize(pixel_grid.pixel_size, LetterboxGrid)
            slack  == LetterboxBuffer - (scaled + 2 * pixel_grid.pixel_offset)
        IN  /\ 0 <= slack /\ slack <= 1
            /\ LeadingMargin = pixel_grid.pixel_offset
            /\ TrailingMargin - LeadingMargin = slack

\* C5's case: a letterboxed layout at a fractional scale whose leftover is odd.
LetterboxFitWitness ==
    /\ phase # "bitmap"
    /\ FractionalScale
    /\ pixel_grid.pixel_offset > 0
    /\ TrailingMargin = LeadingMargin + 1

\* C6: the worked example.  A 600 x 200 bitmap with a 20 x 10 grid is clamped by
\* its height, with scale 20 and offset 100; cell (0, 0) maps to x in [100, 119],
\* y in [0, 19] and cell (19, 9) to x in [480, 499], y in [180, 199].
WorkedExample ==
    (/\ phase # "bitmap"
     /\ bitmap = [width |-> ExampleBitmap[1], height |-> ExampleBitmap[2]]
     /\ <<pixel_grid.width, pixel_grid.height>> = ExampleGrid) =>
        /\ pixel_grid.clamped_by = "Height"
        /\ pixel_grid.pixel_size.num = 20 * pixel_grid.pixel_size.den
        /\ pixel_grid.pixel_offset = 100
        /\ (last.op = "draw_virtual_pixel" /\ last.at = <<0, 0>>) =>
              last.rect = [x1 |-> 100, y1 |-> 0, x2 |-> 119, y2 |-> 19]
        /\ (last.op = "draw_virtual_pixel" /\ last.at = <<19, 9>>) =>
              last.rect = [x1 |-> 480, y1 |-> 180, x2 |-> 499, y2 |-> 199]

\* C6's case: the example's layout, with cell (19, 9) mapped.
WorkedExampleWitness ==
    /\ bitmap = [width |-> ExampleBitmap[1], height |-> ExampleBitmap[2]]
    /\ <<pixel_grid.width, pixel_grid.height>> = ExampleGrid
    /\ last.op = "draw_virtual_pixel"
    /\ last.at = <<19, 9>>

\* C7: fill has total coverage.  A fill(c) step leaves c at every position,
\* keeps the buffer's length and the bitmap's width and height, and a second
\* fill(c) would change nothing.
FillTotal ==
    [][last'.op = "fill" =>
          /\ DOMAIN buffer' = DOMAIN buffer
          /\ DOMAIN buffer' = 0 .. bitmap.width * bitmap.height - 1
          /\ \A k \in DOMAIN buffer' : buffer'[k] = last'.color
          /\ bitmap' = bitmap
          /\ Bitmap_fill(buffer', last'.color) = buffer']_vars

\* C7's case: a buffer filled with one colour was filled with another.
FillTotalWitness ==
    /\ last.op = "fill"
    /\ last.prev.op = "fill"
    /\ last.prev.color # last.color

NoAssertionFires ==
    last.op = "draw_tile" => last.panic = NoPanic

\* The target rectangle of tile t: from the left and top edge of its first
\* virtual pixel to the right and bottom edge of its last.
InTarget(k, t) ==
    LET s  == tile_grid.tile_size
        tl == VirtualPixelRect(pixel_grid, t[1] * s, t[2] * s)
        br == VirtualPixelRect(pixel_grid, (t[1] + 1) * s - 1, (t[2] + 1) * s - 1)
        x  == k % bitmap.width
        y  == k \div bitmap.width
    IN  /\ tl.x1 <= x /\ x <= br.x2
        /\ tl.y1 <= y /\ y <= br.y2

\* C10: the frame of draw_tile.  A draw_tile step, whether it returns or
\* panics, changes no buffer pixel outside the tile's target rectangle and
\* leaves the buffer's length, the bitmap's dimensions and the layout as they
\* were.
DrawTileFrame ==
    [][draws' # draws =>
          /\ DOMAIN buffer' = DOMAIN buffer
          /\ \A k \in DOMAIN buffer :
                ~InTarget(k, last'.at) => buffer'[k] = buffer[k]
          /\ bitmap' = bitmap
          /\ pixel_grid' = pixel_grid
          /\ tile_grid' = tile_grid]_vars

\* C10's case: a tile was drawn after another one, on a layout with margins.
DrawTileFrameWitness ==
    /\ DrewTile
    /\ last.prev.op = "draw_tile"
    /\ last.prev.at # last.at
    /\ pixel_grid.pixel_offset > 0
    /\ \E k \in DOMAIN buffer : ~InTarget(k, last.at) /\ ~InTarget(k, last.prev.at)

====
